---------------------------- MODULE Spec2Model ----------------------------
(***************************************************************************)
(* Espaco Vital: the therapist catalogue and its search                    *)
(* (backend/terapeutas/views.py, TerapeutaListView.get_queryset), the      *)
(* profile page and the contact form of a therapist (TerapeutaDetailView,  *)
(* contatar_terapeuta) and the site configuration singleton                *)
(* (backend/core/models.py), over the relational store described by        *)
(* backend/terapeutas/models.py and backend/core/models.py.                *)
(*                                                                         *)
(* The store is PostgreSQL (backend/espacovital/settings.py:101-110):      *)
(*   - ORDER BY x DESC places NULL before every non-null value;            *)
(*   - rows that tie on every ORDER BY key come back in an unspecified     *)
(*     order, which the model treats as a nondeterministic choice;         *)
(*   - an aggregate over a LEFT JOIN with no joined row is NULL (AVG) or   *)
(*     0 (COUNT), and every further join to a multi-valued relation        *)
(*     multiplies the rows an aggregate sees.                              *)
(*                                                                         *)
(* Text is a sequence of character codes: 1 = "a", 2 = "b", 3 = "A",       *)
(* 4 = "B", 5 = "!", 0 = " ".  Request parameters that Python parses       *)
(* (identifiers) are                                                       *)
(* strings, parsed by ParseInt where the code calls int().                 *)
(***************************************************************************)
EXTENDS Integers, Sequences, FiniteSets, TLC

VARIABLES terapeutas, avaliacoes, escritas, req, status, resultado, anotacoes, anterior,
          paginas, total_resultados, contatos, pedidos, configs, config_seq, chamadas,
          recusados, acao

\* the pages of the listing served so far and the total shown with them
varsPagina == <<paginas, total_resultados>>

\* the Contato table and the requests to the profile and contact views
varsPedidos == <<contatos, pedidos>>

\* the SiteConfiguration table, the sequence of its primary key and the calls
\* of its save() and get_config()
varsConfig == <<configs, config_seq, chamadas>>

vars == <<terapeutas, avaliacoes, escritas, req, status, resultado, anotacoes, anterior,
          paginas, total_resultados, contatos, pedidos, configs, config_seq, chamadas,
          recusados, acao>>

-----------------------------------------------------------------------------
(* Bounds of the model *)

\* therapists that are ever registered
NumTerapeutas == 2
\* admin writes (therapist edits, review saves) after registration
MaxEscritas == 2
\* query-string parameters present in one search request
MaxParams == 2
\* reviewing clients (auth users that leave reviews)
NumClientes == 2
\* therapists of a long catalogue beyond one full page of the listing
MaxExtra == 2
\* requests to the profile page and the contact form that are ever received
NumPedidos == 2
\* calls of SiteConfiguration.save() and get_config() that are ever made
NumChamadas == 3

-----------------------------------------------------------------------------
(* Choices of the models *)

SessionTypeChoices == {"presencial", "online", "domicilio"}

ProfileTypeChoices == {"individual", "espacos"}

ClientTypeChoices == {"qualquer_um", "adultos", "criancas", "idosos", "casais", "grupos"}

\* Avaliacao.nota: choices 1..5
NotaMax == 5

Notas == 1..NotaMax

\* the scores the review forms of the model carry: lowest, middle, highest
NotasForm == {1, 1 + NotaMax \div 2, NotaMax}

-----------------------------------------------------------------------------
(* Reference data: Estado, Cidade, Especialidade rows present in the store *)

Estados == {1, 2}

Cidades == {1, 2}

\* Cidade.estado (both cities lie in state 1; state 2 has no city)
EstadoDe == [c \in Cidades |-> 1]

Especialidades == {1, 2}

\* Especialidade.nome: 1 is "ab", 2 is "Bab"
EspNome == [e \in Especialidades |-> IF e = 1 THEN <<1, 2>> ELSE <<4, 1, 2>>]

-----------------------------------------------------------------------------
(* Text helpers *)

\* lower-casing of one character code
Lower(c) == IF c \in {3, 4} THEN c - 2 ELSE c

Minusc(s) == [i \in DOMAIN s |-> Lower(s[i])]

\* q occurs in s as a contiguous substring
Contem(s, q) ==
    \E i \in 0..(Len(s) - Len(q)) : SubSeq(s, i + 1, i + Len(q)) = q

\* the __icontains lookup
IContains(campo, q) == Contem(Minusc(campo), Minusc(q))

\* strict lexicographic order of two texts by character code
TextoMenor(a, b) ==
    \E i \in 1..(Len(a) + 1) :
        /\ \A j \in 1..(i - 1) : j <= Len(b) /\ a[j] = b[j]
        /\ \/ i = Len(a) + 1 /\ Len(b) >= i
           \/ i <= Len(a) /\ i <= Len(b) /\ a[i] < b[i]

\* the strings int() accepts, among those the model sends
Numerico(s) == s \in {"1", "2", "9"}

ParseInt(s) == IF s = "1" THEN 1 ELSE IF s = "2" THEN 2 ELSE 9

RangeOf(s) == {s[i] : i \in DOMAIN s}


-----------------------------------------------------------------------------
(* The store *)

TerapeutaIds == 1..Len(terapeutas)

Clientes == 1..NumClientes

\* display names typed into the registration form: "Aa", "Bb"
Nomes == {<<3, 1>>, <<4, 2>>}

\* the code of "!", a character that is neither a letter nor a digit
Sinal == 5

\* django.utils.text.slugify: the characters that are not word characters are
\* dropped and the rest is put in lower case
slugify(nome) == Minusc(SelectSeq(nome, LAMBDA c : c # Sinal))

\* A Terapeuta row as Terapeuta.save() first writes it: the field defaults of
\* the model, the slug made from the display name, created_at from
\* auto_now_add.  cidade and data_verificacao are sets: {} is NULL.
NovoTerapeuta(nome, agora) ==
    [ nome_completo    |-> nome,
      nome_exibicao    |-> nome,
      slug             |-> slugify(nome),
      is_active        |-> TRUE,
      cidade           |-> {},
      especialidades   |-> {},
      experiencia_anos |-> 0,
      tipos_sessao     |-> {},
      tipo_perfil      |-> "individual",
      para_quem        |-> "qualquer_um",
      acessibilidade   |-> FALSE,
      bio_curta        |-> <<2>>,
      bio_completa     |-> <<2>>,
      verificado       |-> FALSE,
      data_verificacao |-> {},
      destaque         |-> FALSE,
      premium          |-> FALSE,
      visualizacoes    |-> 0,
      total_contatos   |-> 0,
      created_at       |-> agora ]

\* the reviews of therapist t (reverse relation avaliacoes)
AvaliacoesDe(t) == {a \in avaliacoes : a.terapeuta = t}

AvaliacoesAtivasDe(t) == {a \in AvaliacoesDe(t) : a.is_active}

RECURSIVE SomaNotas(_)
SomaNotas(S) ==
    IF S = {} THEN 0
    ELSE LET a == CHOOSE x \in S : TRUE IN a.nota + SomaNotas(S \ {a})

\* Terapeuta.total_avaliacoes (the model property)
total_avaliacoes(t) == Cardinality(AvaliacoesAtivasDe(t))

\* round(x, 1) of the fraction soma / n, in tenths, ties to even
Round1(soma, n) ==
    LET q == (10 * soma) \div n
        r == (10 * soma) % n
    IN  IF 2 * r > n THEN q + 1
        ELSE IF 2 * r < n THEN q
        ELSE IF q % 2 = 0 THEN q ELSE q + 1

\* Terapeuta.rating_medio, in tenths (0 is 0.0)
rating_medio(t) ==
    IF AvaliacoesAtivasDe(t) # {}
    THEN Round1(SomaNotas(AvaliacoesAtivasDe(t)), Cardinality(AvaliacoesAtivasDe(t)))
    ELSE 0

-----------------------------------------------------------------------------
(* Search requests: request.GET of TerapeutaListView *)

\* no parameter present: get() gives None, getlist() gives []
ReqVazia ==
    [ tipos_sessao        |-> <<>>,
      cidade              |-> "",
      estado              |-> "",
      especialidades      |-> <<>>,
      acessibilidade      |-> "",
      perfil_profissional |-> "",
      para_quem           |-> "",
      q                   |-> <<>>,
      ordenacao           |-> "" ]

\* lists of one or two distinct values
Listas(V) == {<<v>> : v \in V} \cup {<<p[1], p[2]>> : p \in {x \in V \X V : x[1] # x[2]}}

\* the values a present parameter may carry, well-formed and malformed
Dominio ==
    [ tipos_sessao        |-> Listas({"presencial", "online", "xyz"}),
      cidade              |-> {"1", "2", "abc"},
      estado              |-> {"1", "2", "abc"},
      especialidades      |-> Listas({"1", "2", "abc"}),
      acessibilidade      |-> {"sim", "nao"},
      perfil_profissional |-> {"individual", "espacos", "xyz"},
      para_quem           |-> {"qualquer_um", "adultos", "xyz"},
      q                   |-> {<<1>>, <<4, 1>>},
      ordenacao           |-> {"relevancia", "melhor_avaliado", "mais_experiente",
                               "nome", "xyz"} ]

ParamsFiltro == {"tipos_sessao", "cidade", "estado", "especialidades",
                 "acessibilidade", "perfil_profissional", "para_quem", "q", "ordenacao"}

ParamsOrdem == {"ordenacao", "especialidades"}

\* the requests that carry at most k of the parameters P
RECURSIVE ReqAte(_, _)
ReqAte(P, k) ==
    IF k = 0 THEN {ReqVazia}
    ELSE LET menos == ReqAte(P, k - 1)
         IN  menos \cup
             UNION { UNION { {[r EXCEPT ![p] = v] : v \in Dominio[p]} : p \in P }
                     : r \in menos }

RequisicoesFiltro == ReqAte(ParamsFiltro, MaxParams)

RequisicoesOrdem == ReqAte(ParamsOrdem, MaxParams)

\* the parameters present in a request
Presentes(r) == {p \in DOMAIN ReqVazia : r[p] # ReqVazia[p]}

-----------------------------------------------------------------------------
(* TerapeutaListView.get_queryset: the filters *)

\* the base queryset without the is_active filter
QsBase_SemFiltroAtivo == TerapeutaIds

\* Terapeuta.objects.filter(is_active=True)
QsBase == {t \in TerapeutaIds : terapeutas[t].is_active}

\* one .filter(tipos_sessao__contains=[tipo]) per listed tipo that is a choice
FiltroTiposSessao(qs, r) ==
    {t \in qs : \A i \in DOMAIN r.tipos_sessao :
                    r.tipos_sessao[i] \in SessionTypeChoices
                        => r.tipos_sessao[i] \in terapeutas[t].tipos_sessao}

\* .filter(cidade_id=...) raises ValueError on a non-numeric value: except/pass
FiltroCidade(qs, r) ==
    IF r.cidade # "" /\ Numerico(r.cidade)
    THEN {t \in qs : ParseInt(r.cidade) \in terapeutas[t].cidade}
    ELSE qs

FiltroEstado(qs, r) ==
    IF r.estado # "" /\ Numerico(r.estado)
    THEN {t \in qs : \E c \in terapeutas[t].cidade : EstadoDe[c] = ParseInt(r.estado)}
    ELSE qs

\* [int(esp_id) for esp_id in especialidades] raises ValueError as a whole
EspecialidadesValidas(r) ==
    r.especialidades # <<>> /\ \A i \in DOMAIN r.especialidades : Numerico(r.especialidades[i])

especialidades_ids(r) == {ParseInt(r.especialidades[i]) : i \in DOMAIN r.especialidades}

\* the specialty filter demanding every listed identifier
FiltroEspecialidades_Todas(qs, r) ==
    IF EspecialidadesValidas(r)
    THEN {t \in qs : especialidades_ids(r) \subseteq terapeutas[t].especialidades}
    ELSE qs

FiltroEspecialidades(qs, r) ==
    IF EspecialidadesValidas(r)
    THEN {t \in qs : terapeutas[t].especialidades \cap especialidades_ids(r) # {}}
    ELSE qs

FiltroAcessibilidade(qs, r) ==
    IF r.acessibilidade = "sim" THEN {t \in qs : terapeutas[t].acessibilidade} ELSE qs

FiltroPerfil(qs, r) ==
    IF r.perfil_profissional # "" /\ r.perfil_profissional \in ProfileTypeChoices
    THEN {t \in qs : terapeutas[t].tipo_perfil = r.perfil_profissional}
    ELSE qs

FiltroParaQuem(qs, r) ==
    IF r.para_quem # "" /\ r.para_quem \in ClientTypeChoices
    THEN {t \in qs : terapeutas[t].para_quem = r.para_quem}
    ELSE qs

\* the four text columns of the Terapeuta row that q is matched against
CasaCampos(t, q) ==
    \/ IContains(terapeutas[t].nome_completo, q)
    \/ IContains(terapeutas[t].nome_exibicao, q)
    \/ IContains(terapeutas[t].bio_curta, q)
    \/ IContains(terapeutas[t].bio_completa, q)

\* the specialties of t whose name q is matched in
EspecialidadesCasam(t, q) ==
    {e \in terapeutas[t].especialidades : IContains(EspNome[e], q)}

\* the free-text filter without the lookup through the specialties
FiltroBusca_SoCampos(qs, r) ==
    IF r.q # <<>>
    THEN {t \in qs : CasaCampos(t, r.q)}
    ELSE qs

FiltroBusca(qs, r) ==
    IF r.q # <<>>
    THEN {t \in qs : CasaCampos(t, r.q) \/ EspecialidadesCasam(t, r.q) # {}}
    ELSE qs

\* the filters in the order get_queryset applies them
Filtrado(r) ==
    FiltroBusca(
      FiltroParaQuem(
        FiltroPerfil(
          FiltroAcessibilidade(
            FiltroEspecialidades(
              FiltroEstado(
                FiltroCidade(
                  FiltroTiposSessao(QsBase, r), r), r), r), r), r), r), r)

-----------------------------------------------------------------------------
(* TerapeutaListView.get_queryset: the annotations *)

\* Avg('avaliacoes__nota') over the LEFT JOIN to every review of t, as the
\* fraction soma / n; n = 0 is SQL NULL
media_avaliacoes(t) ==
    [soma |-> SomaNotas(AvaliacoesDe(t)), n |-> Cardinality(AvaliacoesDe(t))]

\* rows of the INNER JOIN that especialidades__id__in adds for t
LinhasEspecialidades(t, r) ==
    IF EspecialidadesValidas(r)
    THEN Cardinality(terapeutas[t].especialidades \cap especialidades_ids(r))
    ELSE 1

\* rows of the LEFT JOIN that especialidades__nome__icontains adds for t and
\* that pass the OR of the free-text filter
LinhasBusca(t, r) ==
    IF r.q = <<>> THEN 1
    ELSE IF CasaCampos(t, r.q)
         THEN (IF terapeutas[t].especialidades = {} THEN 1
               ELSE Cardinality(terapeutas[t].especialidades))
         ELSE Cardinality(EspecialidadesCasam(t, r.q))

\* Count('avaliacoes', filter=Q(avaliacoes__is_active=True)) over the joined rows
total_avaliacoes_anotado(t, r) ==
    Cardinality(AvaliacoesAtivasDe(t)) * LinhasEspecialidades(t, r) * LinhasBusca(t, r)

Anotacao(t, r) ==
    [ media_avaliacoes |-> media_avaliacoes(t),
      total_avaliacoes |-> total_avaliacoes_anotado(t, r) ]

-----------------------------------------------------------------------------
(* TerapeutaListView.get_queryset: the ordering *)

\* request.GET.get('ordenacao', 'relevancia')
ordering(r) == IF r.ordenacao = "" THEN "relevancia" ELSE r.ordenacao

\* the order_by() keys with the mais_experiente branch left out
Chaves_SemExperiencia(r) ==
    IF ordering(r) = "melhor_avaliado" THEN <<"-media_avaliacoes", "-total_avaliacoes">>
    ELSE IF ordering(r) = "nome" THEN <<"nome_exibicao">>
    ELSE <<"-destaque", "-premium", "-verificado", "-media_avaliacoes", "-created_at">>

\* the order_by() keys of each branch
Chaves(r) ==
    IF ordering(r) = "melhor_avaliado" THEN <<"-media_avaliacoes", "-total_avaliacoes">>
    ELSE IF ordering(r) = "mais_experiente" THEN <<"-experiencia_anos">>
    ELSE IF ordering(r) = "nome" THEN <<"nome_exibicao">>
    ELSE <<"-destaque", "-premium", "-verificado", "-media_avaliacoes", "-created_at">>

\* m sorts strictly before o under ORDER BY avg DESC: NULL first, then larger first
MediaAntes(m, o) ==
    \/ m.n = 0 /\ o.n # 0
    \/ m.n # 0 /\ o.n # 0 /\ m.soma * o.n > o.soma * m.n

\* x sorts strictly before y on the single key k
AntesChave(k, x, y, r) ==
    CASE k = "-destaque"         -> terapeutas[x].destaque /\ ~terapeutas[y].destaque
      [] k = "-premium"          -> terapeutas[x].premium /\ ~terapeutas[y].premium
      [] k = "-verificado"       -> terapeutas[x].verificado /\ ~terapeutas[y].verificado
      [] k = "-media_avaliacoes" -> MediaAntes(media_avaliacoes(x), media_avaliacoes(y))
      [] k = "-total_avaliacoes" -> total_avaliacoes_anotado(x, r) > total_avaliacoes_anotado(y, r)
      [] k = "-created_at"       -> terapeutas[x].created_at > terapeutas[y].created_at
      [] k = "-experiencia_anos" -> terapeutas[x].experiencia_anos > terapeutas[y].experiencia_anos
      [] k = "nome_exibicao"     -> TextoMenor(terapeutas[x].nome_exibicao, terapeutas[y].nome_exibicao)

\* x sorts strictly before y on the whole key list of the request
Precede(r, x, y) ==
    LET ks == Chaves(r)
    IN  \E i \in DOMAIN ks :
            /\ \A j \in 1..(i - 1) : ~AntesChave(ks[j], x, y, r) /\ ~AntesChave(ks[j], y, x, r)
            /\ AntesChave(ks[i], x, y, r)

\* every arrangement of S in a row
Perms(S) ==
    {s \in [1..Cardinality(S) -> S] : \A i, j \in DOMAIN s : i # j => s[i] # s[j]}

\* the sequences the store may return: sorted on the keys, ties in any order
Resultados(r) ==
    {s \in Perms(Filtrado(r)) :
        \A i, j \in DOMAIN s : i < j => ~Precede(r, s[j], s[i])}

-----------------------------------------------------------------------------
(* TerapeutaListView: the pages of the listing (paginate_by) *)

\* paginate_by
PaginateBy == 12

\* the therapists of the filtered set that ORDER BY places strictly before x
AntesDe(r, x) == {y \in Filtrado(r) : Precede(r, y, x)}

\* the therapists of the filtered set that ORDER BY places strictly after x
DepoisDe(r, x) == {y \in Filtrado(r) : Precede(r, x, y)}

\* the rows the store may return at position pos (from 1) of the ordered
\* queryset: those whose ties cover the position
NaPosicao(r, pos) ==
    {x \in Filtrado(r) :
        /\ Cardinality(AntesDe(r, x)) < pos
        /\ pos <= Cardinality(Filtrado(r)) - Cardinality(DepoisDe(r, x))}

\* queryset[bottom:top], one SELECT ... LIMIT top - bottom OFFSET bottom: the
\* sequences the store may return for the positions bottom + 1 .. top
RECURSIVE Fatias(_, _, _)
Fatias(r, bottom, top) ==
    IF top <= bottom THEN {<<>>}
    ELSE UNION {{Append(s, x) : x \in NaPosicao(r, top) \ RangeOf(s)} :
                    s \in Fatias(r, bottom, top - 1)}

\* Paginator.count: queryset.count()
count(r) == Cardinality(Filtrado(r))

\* Paginator.num_pages, allow_empty_first_page
num_pages(r) ==
    IF count(r) = 0 THEN 1 ELSE (count(r) + PaginateBy - 1) \div PaginateBy

\* Paginator.page(number).object_list, orphans = 0
Pagina(r, number) ==
    LET bottom == (number - 1) * PaginateBy
        top    == IF bottom + PaginateBy >= count(r) THEN count(r) ELSE bottom + PaginateBy
    IN  Fatias(r, bottom, top)

-----------------------------------------------------------------------------
(* contatar_terapeuta and TerapeutaDetailView: requests and responses *)

\* the requests in the order they are received
Pedidos == 1..NumPedidos

\* the specialties with is_active = True: "ab" is offered, "Ba" is withdrawn
EspecialidadesAtivas == {1}

\* str.strip() of a text in which code 0 is the space
RECURSIVE Strip(_)
Strip(s) ==
    IF s = <<>> THEN s
    ELSE IF Head(s) = 0 THEN Strip(Tail(s))
    ELSE IF s[Len(s)] = 0 THEN Strip(SubSeq(s, 1, Len(s) - 1))
    ELSE s

\* the fields of the contact form that the view requires
CamposObrigatorios == {"nome", "email", "assunto", "mensagem"}

\* request.POST of a GET request, and of a form sent with nothing filled in
PostVazio ==
    [ nome                    |-> <<>>,
      email                   |-> <<>>,
      assunto                 |-> <<>>,
      mensagem                |-> <<>>,
      telefone                |-> <<>>,
      especialidade_interesse |-> "" ]

\* a contact form filled in: " Aa", "a", "b", "ba ", no telephone
PostPreenchido ==
    [ nome                    |-> <<0, 3, 1>>,
      email                   |-> <<1>>,
      assunto                 |-> <<2>>,
      mensagem                |-> <<2, 1, 0>>,
      telefone                |-> <<>>,
      especialidade_interesse |-> "" ]

\* the values of especialidade_interesse: an active specialty, a withdrawn
\* one, an id of no specialty, a value that is no number
ValoresEspecialidade == {"1", "2", "9", "abc"}

\* the forms posted: filled in, with and without a specialty of interest, or
\* with one required field absent, empty or blank
Formularios ==
    {PostPreenchido}
    \cup {[PostPreenchido EXCEPT !.especialidade_interesse = v] : v \in ValoresEspecialidade}
    \cup {[PostPreenchido EXCEPT ![c] = v] : c \in CamposObrigatorios, v \in {<<>>, <<0>>}}

\* the slugs of the URLs asked for: "aa", and "ab", which no name makes
Slugs == {<<1, 1>>, <<1, 2>>}

\* the lookup without its is_active condition
Encontrados_SemAtivo(slug) ==
    {t \in TerapeutaIds : terapeutas[t].slug = slug}

\* get_object_or_404(Terapeuta, slug=slug, is_active=True) and the same lookup
\* of TerapeutaDetailView: the active therapists with the slug
Encontrados(slug) ==
    {t \in TerapeutaIds : terapeutas[t].slug = slug /\ terapeutas[t].is_active}

\* the check of the required fields without strip()
Preenchido_SemStrip(post) == \A c \in CamposObrigatorios : post[c] # <<>>

\* all([nome, email, assunto, mensagem]) after strip()
Preenchido(post) == \A c \in CamposObrigatorios : Strip(post[c]) # <<>>

\* Especialidade.objects.get(id=especialidade_id, is_active=True) raises
\* ValueError: the id is not a number
EspecialidadeInvalida(post) ==
    post.especialidade_interesse # "" /\ ~Numerico(post.especialidade_interesse)

\* especialidade_interesse as the view resolves it: {} is None
EspecialidadeInteresse(post) ==
    IF post.especialidade_interesse # "" /\ Numerico(post.especialidade_interesse)
    THEN {ParseInt(post.especialidade_interesse)} \cap Especialidades \cap EspecialidadesAtivas
    ELSE {}

\* no response yet
SemCorpo ==
    [ codigo |-> 0, corpo |-> "", contexto |-> {}, mensagem |-> "", json |-> <<>> ]

\* Http404
NaoEncontrado == [SemCorpo EXCEPT !.codigo = 404]

\* render(contato_form.html) of a GET request
Formulario ==
    [SemCorpo EXCEPT !.codigo = 200, !.corpo = "contato_form",
                     !.contexto = {"terapeuta", "especialidades", "page_title"}]

\* the form rendered again after messages.error on a missing field
FormularioRecusado ==
    [SemCorpo EXCEPT !.codigo = 200, !.corpo = "contato_form",
                     !.contexto = {"terapeuta"},
                     !.mensagem = "Por favor, preencha todos os campos obrigatorios."]

\* the response of the success branch
Sucesso(ajax) ==
    IF ajax
    THEN [SemCorpo EXCEPT !.codigo = 200, !.corpo = "json",
                          !.mensagem = "Sua mensagem foi enviada com sucesso",
                          !.json = <<TRUE, "Mensagem enviada com sucesso!">>]
    ELSE [SemCorpo EXCEPT !.codigo = 200, !.corpo = "contato_sucesso",
                          !.contexto = {"terapeuta", "contato"},
                          !.mensagem = "Sua mensagem foi enviada com sucesso"]

\* an except branch that shows the exception to the client
Falha_ComDetalhe(ajax, e) ==
    IF ajax
    THEN [SemCorpo EXCEPT !.codigo = 200, !.corpo = "json", !.mensagem = e,
                          !.json = <<FALSE, e>>]
    ELSE [Formulario EXCEPT !.mensagem = e]

\* the response of the except branch: the exception e is not used
Falha(ajax, e) ==
    IF ajax
    THEN [SemCorpo EXCEPT !.codigo = 200, !.corpo = "json",
                          !.mensagem = "Ocorreu um erro ao enviar sua mensagem. Tente novamente.",
                          !.json = <<FALSE, "Erro ao enviar mensagem.">>]
    ELSE [Formulario EXCEPT
                          !.mensagem = "Ocorreu um erro ao enviar sua mensagem. Tente novamente."]

\* render(profile.html) of TerapeutaDetailView
Perfil ==
    [SemCorpo EXCEPT !.codigo = 200, !.corpo = "profile", !.contexto = {"terapeuta"}]

\* a request not yet received.  terapeuta, lido and contato are the locals of
\* the view: the therapist found, the counter read with it, the Contato
\* created (0: none).  antes remembers the store the request met.
PedidoLivre ==
    [ pc         |-> "livre",
      view       |-> "",
      slug       |-> <<>>,
      method     |-> "",
      ajax       |-> FALSE,
      post       |-> PostVazio,
      terapeuta  |-> 0,
      lido       |-> 0,
      contato    |-> 0,
      tentativas |-> 0,
      excecao    |-> "",
      resposta   |-> SemCorpo,
      antes      |-> [terapeutas |-> <<>>, contatos |-> {}] ]

\* a Contato row as Contato.objects.create writes it
NovoContato(id, t, post) ==
    [ id                      |-> id,
      terapeuta               |-> t,
      nome                    |-> Strip(post.nome),
      email                   |-> Strip(post.email),
      telefone                |-> Strip(post.telefone),
      assunto                 |-> Strip(post.assunto),
      mensagem                |-> Strip(post.mensagem),
      especialidade_interesse |-> EspecialidadeInteresse(post),
      status                  |-> "enviado" ]

\* the failures of the store: what the exception says
Excecoes == {"DatabaseError"}

-----------------------------------------------------------------------------
(* SiteConfiguration: rows and calls *)

\* the calls in the order they are made
Chamadas == 1..NumChamadas

\* site_name: the default of the field and an edited name
NomesDoSite == {"Espaco Vital", "Novo"}

\* primary keys given to an instance by its caller
PksExplicitos == {1, 2}

\* a row of the table
Config(pk, site_name) == [pk |-> pk, site_name |-> site_name]

\* the rows with primary key pk
ConfigsDe(pk) == {r \in configs : r.pk = pk}

\* a call not yet made.  pk = 0 is an instance without primary key; erro is
\* the exception the call raised, retorno the pk of the row it returned.
ChamadaLivre ==
    [ pc |-> "livre", op |-> "", pk |-> 0, site_name |-> "", erro |-> "", retorno |-> 0 ]

-----------------------------------------------------------------------------
(* State machine *)

\* the last bulk action run and the therapists that were selected for it
AcaoNenhuma == [nome |-> "", selecionados |-> {}]

\* the values timezone.now() takes
MaxInstante == 3

Instantes == 1..MaxInstante

Init ==
    /\ terapeutas = <<>>
    /\ avaliacoes = {}
    /\ escritas = 0
    /\ req = ReqVazia
    /\ status = "nenhuma"
    /\ resultado = <<>>
    /\ anotacoes = <<>>
    /\ anterior = <<>>
    /\ paginas = <<>>
    /\ total_resultados = 0
    /\ contatos = {}
    /\ pedidos = [p \in Pedidos |-> PedidoLivre]
    /\ configs = {}
    /\ config_seq = 1
    /\ chamadas = [c \in Chamadas |-> ChamadaLivre]
    /\ recusados = {}
    /\ acao = AcaoNenhuma

\* a write to the store leaves no search response standing
SemResposta ==
    /\ req' = ReqVazia
    /\ status' = "nenhuma"
    /\ resultado' = <<>>
    /\ anotacoes' = <<>>
    /\ anterior' = <<>>

\* registration of a therapist: the first Terapeuta.save().  The slug column
\* is unique: a name whose slug is taken is not stored.
CriarTerapeuta(nome) ==
    /\ Len(terapeutas) < NumTerapeutas
    /\ \A t \in TerapeutaIds : terapeutas[t].slug # slugify(nome)
    /\ terapeutas' = Append(terapeutas, NovoTerapeuta(nome, Len(terapeutas) + 1))
    /\ UNCHANGED <<avaliacoes, escritas, varsPagina, varsPedidos, varsConfig, recusados, acao>>
    /\ SemResposta

\* registration of a therapist whose slug another row holds: the INSERT of
\* the first Terapeuta.save() breaks the unique constraint of the slug column,
\* the IntegrityError reaches the caller and no row is stored
CriarTerapeutaRecusado(nome) ==
    /\ Len(terapeutas) < NumTerapeutas
    /\ \E t \in TerapeutaIds : terapeutas[t].slug = slugify(nome)
    /\ nome \notin recusados
    /\ recusados' = recusados \cup {nome}
    /\ UNCHANGED <<terapeutas, avaliacoes, escritas, varsPagina, varsPedidos, varsConfig, acao>>
    /\ SemResposta

\* Terapeuta.save() of a stored row: an empty slug is made from the display
\* name the instance has now, a slug that is set is kept
Salvo(editado) ==
    IF editado.slug = <<>>
    THEN [editado EXCEPT !.slug = slugify(editado.nome_exibicao)]
    ELSE editado

\* the admin change form of a therapist saved with one field changed; the
\* UPDATE is refused when it would give the row the slug of another row
AdminSalvarTerapeuta(t, campo, valor) ==
    /\ escritas < MaxEscritas
    /\ terapeutas[t][campo] # valor
    /\ \A u \in TerapeutaIds \ {t} :
           terapeutas[u].slug # Salvo([terapeutas[t] EXCEPT ![campo] = valor]).slug
    /\ terapeutas' = [terapeutas EXCEPT ![t] = Salvo([terapeutas[t] EXCEPT ![campo] = valor])]
    /\ escritas' = escritas + 1
    /\ UNCHANGED <<avaliacoes, varsPagina, varsPedidos, varsConfig, recusados, acao>>
    /\ SemResposta

\* the admin form of a review saved: client c's review of t is created or
\* replaced (unique_together terapeuta, cliente)
AdminSalvarAvaliacao(t, c, nota, ativa) ==
    /\ escritas < MaxEscritas
    /\ LET nova  == [terapeuta |-> t, cliente |-> c, nota |-> nota, is_active |-> ativa]
           resto == {a \in avaliacoes : ~(a.terapeuta = t /\ a.cliente = c)}
       IN  /\ nova \notin avaliacoes
           /\ avaliacoes' = resto \cup {nova}
    /\ escritas' = escritas + 1
    /\ UNCHANGED <<terapeutas, varsPagina, varsPedidos, varsConfig, recusados, acao>>
    /\ SemResposta

\* the statement the three bulk actions issue: queryset.update(**campos) on
\* the selected rows, one UPDATE that sets the named columns and no other
AtualizarSelecionados(acao_nome, S, campos) ==
    /\ S # {}
    /\ S \subseteq TerapeutaIds
    /\ terapeutas' = [t \in DOMAIN terapeutas |->
                         IF t \in S
                         THEN [c \in DOMAIN terapeutas[t] |->
                                  IF c \in DOMAIN campos THEN campos[c] ELSE terapeutas[t][c]]
                         ELSE terapeutas[t]]
    /\ acao' = [nome |-> acao_nome, selecionados |-> S]
    /\ UNCHANGED <<avaliacoes, escritas, varsPagina, varsPedidos, varsConfig, recusados>>
    /\ SemResposta

\* admin action verificar_terapeutas on the selection S at the instant agora
verificar_terapeutas(S, agora) ==
    AtualizarSelecionados("verificar_terapeutas", S,
                          [verificado |-> TRUE, data_verificacao |-> {agora}])

\* remover_verificacao that clears the flag and leaves the timestamp
remover_verificacao_SoFlag(S) ==
    AtualizarSelecionados("remover_verificacao", S, [verificado |-> FALSE])

\* admin action remover_verificacao on the selection S
remover_verificacao(S) ==
    AtualizarSelecionados("remover_verificacao", S,
                          [verificado |-> FALSE, data_verificacao |-> {}])

\* admin action marcar_destaque on the selection S
marcar_destaque(S) ==
    AtualizarSelecionados("marcar_destaque", S, [destaque |-> TRUE])

\* GET /terapeutas/buscar/ with the parameters r: get_queryset, evaluated
Buscar(r) ==
    /\ status = "nenhuma"
    /\ \E s \in Resultados(r) :
          /\ resultado' = s
          /\ anotacoes' = [i \in DOMAIN s |-> Anotacao(s[i], r)]
    /\ req' = r
    /\ status' = "ok"
    /\ anterior' = <<>>
    /\ UNCHANGED <<terapeutas, avaliacoes, escritas, varsPagina, varsPedidos, varsConfig, recusados, acao>>

\* the same request sent a second time, no write in between
BuscarDeNovo ==
    /\ status = "ok"
    /\ anterior = <<>>
    /\ \E s \in Resultados(req) :
          /\ resultado' = s
          /\ anotacoes' = [i \in DOMAIN s |-> Anotacao(s[i], req)]
    /\ anterior' = <<resultado>>
    /\ UNCHANGED <<terapeutas, avaliacoes, escritas, req, status>>
    /\ UNCHANGED <<varsPagina, varsPedidos, varsConfig, recusados, acao>>

\* the response is rendered and sent; the handler keeps nothing of it
Entregar ==
    /\ status = "ok"
    /\ SemResposta
    /\ UNCHANGED <<terapeutas, avaliacoes, escritas, varsPagina, varsPedidos, varsConfig, recusados, acao>>

\* the single-field edits of the filter columns
EdicoesFiltro ==
    {<<"is_active", b>> : b \in BOOLEAN}
    \cup {<<"tipos_sessao", S>> : S \in SUBSET {"presencial", "online"}}
    \cup {<<"cidade", {c}>> : c \in Cidades}
    \cup {<<"especialidades", S>> : S \in SUBSET Especialidades}
    \cup {<<"acessibilidade", b>> : b \in BOOLEAN}
    \cup {<<"tipo_perfil", v>> : v \in ProfileTypeChoices}
    \cup {<<"para_quem", v>> : v \in {"qualquer_um", "adultos"}}
    \cup {<<"bio_curta", <<1>> >>}

\* the single-field edits of the ranking columns
EdicoesOrdem ==
    {<<"destaque", b>> : b \in BOOLEAN}
    \cup {<<"premium", b>> : b \in BOOLEAN}
    \cup {<<"verificado", b>> : b \in BOOLEAN}
    \cup {<<"experiencia_anos", 5>>}
    \cup {<<"especialidades", S>> : S \in SUBSET Especialidades}

NextFiltro ==
    \/ \E nome \in Nomes : CriarTerapeuta(nome)
    \/ \E t \in TerapeutaIds, e \in EdicoesFiltro : AdminSalvarTerapeuta(t, e[1], e[2])
    \/ \E r \in RequisicoesFiltro : Buscar(r)
    \/ Entregar

SpecFiltro == Init /\ [][NextFiltro]_vars

\* GET /terapeutas/?page=number with the parameters r: paginate_queryset and
\* get_context_data.  The pages of one listing are asked for in order.
Paginar(r, number) ==
    /\ status = "nenhuma"
    /\ number = Len(paginas) + 1
    /\ paginas = <<>> \/ req = r
    /\ number <= num_pages(r)
    /\ \E pg \in Pagina(r, number) : paginas' = Append(paginas, pg)
    /\ total_resultados' = count(r)
    /\ req' = r
    /\ UNCHANGED <<terapeutas, avaliacoes, escritas, status, resultado, anotacoes, anterior>>
    /\ UNCHANGED <<varsPedidos, varsConfig, recusados, acao>>

\* the visitor leaves the listing
DeixarListagem ==
    /\ paginas # <<>>
    /\ paginas' = <<>>
    /\ total_resultados' = 0
    /\ req' = ReqVazia
    /\ UNCHANGED <<terapeutas, avaliacoes, escritas, status, resultado, anotacoes, anterior>>
    /\ UNCHANGED <<varsPedidos, varsConfig, recusados, acao>>

\* the search is not touched by the profile and contact views
SemBusca == UNCHANGED <<avaliacoes, escritas, req, status, resultado, anotacoes, anterior>>

\* a request as it is received: what the client sent and the store it met
Recebido(view, slug, method, ajax, post) ==
    [PedidoLivre EXCEPT !.view = view, !.slug = slug, !.method = method,
                        !.ajax = ajax, !.post = post,
                        !.antes = [terapeutas |-> terapeutas, contatos |-> contatos]]

\* contatar_terapeuta up to its first write: get_object_or_404, the check of
\* the required fields and the lookup of the specialty of interest.  Requests
\* are numbered in the order they are received.
ContatoReceber(p, slug, method, ajax, post) ==
    /\ pedidos[p].pc = "livre"
    /\ \A q \in 1..(p - 1) : pedidos[q].pc # "livre"
    /\ LET base == Recebido("contatar", slug, method, ajax, post)
           t    == CHOOSE x \in Encontrados(slug) : TRUE
       IN  pedidos' = [pedidos EXCEPT ![p] =
             IF Encontrados(slug) = {}
             THEN [base EXCEPT !.pc = "fim", !.resposta = NaoEncontrado]
             ELSE IF method # "POST"
             THEN [base EXCEPT !.pc = "fim", !.terapeuta = t, !.resposta = Formulario]
             ELSE IF ~Preenchido(post)
             THEN [base EXCEPT !.pc = "fim", !.terapeuta = t, !.resposta = FormularioRecusado]
             ELSE IF EspecialidadeInvalida(post)
             THEN [base EXCEPT !.pc = "fim", !.terapeuta = t, !.excecao = "ValueError",
                               !.resposta = Falha(ajax, "ValueError")]
             ELSE [base EXCEPT !.pc = "criar", !.terapeuta = t,
                               !.lido = terapeutas[t].total_contatos]]
    /\ UNCHANGED <<terapeutas, contatos, varsPagina, varsConfig, recusados, acao>>
    /\ SemBusca

\* Contato.objects.create: the row is inserted (e = ""), or the store raises e
\* and the except branch answers
ContatoCriar(p, e) ==
    /\ pedidos[p].pc = "criar"
    /\ IF e = ""
       THEN /\ contatos' = contatos \cup
                    {NovoContato(Cardinality(contatos) + 1, pedidos[p].terapeuta, pedidos[p].post)}
            /\ pedidos' = [pedidos EXCEPT ![p].pc = "salvar", ![p].tentativas = @ + 1,
                                          ![p].contato = Cardinality(contatos) + 1]
       ELSE /\ contatos' = contatos
            /\ pedidos' = [pedidos EXCEPT ![p].pc = "fim", ![p].tentativas = @ + 1,
                                          ![p].excecao = e,
                                          ![p].resposta = Falha(pedidos[p].ajax, e)]
    /\ UNCHANGED <<terapeutas, varsPagina, varsConfig, recusados, acao>>
    /\ SemBusca

\* terapeuta.total_contatos += 1 on the instance read by get_object_or_404,
\* then save(update_fields=['total_contatos']): the UPDATE writes the value
\* computed in Python (e = ""), or the store raises e
ContatoSalvar(p, e) ==
    /\ pedidos[p].pc = "salvar"
    /\ IF e = ""
       THEN /\ terapeutas' = [terapeutas EXCEPT
                    ![pedidos[p].terapeuta].total_contatos = pedidos[p].lido + 1]
            /\ pedidos' = [pedidos EXCEPT ![p].pc = "fim",
                                          ![p].resposta = Sucesso(pedidos[p].ajax)]
       ELSE /\ terapeutas' = terapeutas
            /\ pedidos' = [pedidos EXCEPT ![p].pc = "fim", ![p].excecao = e,
                                          ![p].resposta = Falha(pedidos[p].ajax, e)]
    /\ UNCHANGED <<contatos, varsPagina, varsConfig, recusados, acao>>
    /\ SemBusca

\* TerapeutaDetailView.get_object up to its write: the lookup among the
\* active therapists
PerfilReceber(p, slug) ==
    /\ pedidos[p].pc = "livre"
    /\ \A q \in 1..(p - 1) : pedidos[q].pc # "livre"
    /\ LET base == Recebido("profile", slug, "GET", FALSE, PostVazio)
           t    == CHOOSE x \in Encontrados(slug) : TRUE
       IN  pedidos' = [pedidos EXCEPT ![p] =
             IF Encontrados(slug) = {}
             THEN [base EXCEPT !.pc = "fim", !.resposta = NaoEncontrado]
             ELSE [base EXCEPT !.pc = "incrementar", !.terapeuta = t,
                               !.lido = terapeutas[t].visualizacoes]]
    /\ UNCHANGED <<terapeutas, contatos, varsPagina, varsConfig, recusados, acao>>
    /\ SemBusca

\* incrementar_visualizacoes: visualizacoes += 1 on the instance read, then
\* save(update_fields=['visualizacoes'])
PerfilIncrementar(p) ==
    /\ pedidos[p].pc = "incrementar"
    /\ terapeutas' = [terapeutas EXCEPT
            ![pedidos[p].terapeuta].visualizacoes = pedidos[p].lido + 1]
    /\ pedidos' = [pedidos EXCEPT ![p].pc = "fim", ![p].resposta = Perfil]
    /\ UNCHANGED <<contatos, varsPagina, varsConfig, recusados, acao>>
    /\ SemBusca

\* the catalogue and the search are not touched by the site configuration
SemCatalogo ==
    /\ UNCHANGED <<terapeutas, avaliacoes, escritas, req, status, resultado, anotacoes, anterior>>
    /\ UNCHANGED <<varsPagina, varsPedidos, recusados, acao>>

\* SiteConfiguration.save() up to super().save(): an instance without pk is
\* refused when SiteConfiguration.objects.exists()
SaveVerificar(c, pk, site_name) ==
    /\ chamadas[c].pc = "livre"
    /\ \A d \in 1..(c - 1) : chamadas[d].pc # "livre"
    /\ LET base == [ChamadaLivre EXCEPT !.op = "save", !.pk = pk, !.site_name = site_name]
       IN  chamadas' = [chamadas EXCEPT ![c] =
             IF pk = 0 /\ configs # {}
             THEN [base EXCEPT !.pc = "fim", !.erro = "ValueError"]
             ELSE [base EXCEPT !.pc = "gravar"]]
    /\ UNCHANGED <<configs, config_seq>>
    /\ SemCatalogo

\* super().save(): with a pk, UPDATE the row of that pk, or INSERT it when
\* there is none; without a pk, INSERT with the next value of the sequence,
\* which the primary key constraint refuses when the value is taken
SaveGravar(c) ==
    /\ chamadas[c].pc = "gravar"
    /\ chamadas[c].op = "save"
    /\ IF chamadas[c].pk # 0
       THEN /\ configs' = (configs \ ConfigsDe(chamadas[c].pk))
                               \cup {Config(chamadas[c].pk, chamadas[c].site_name)}
            /\ config_seq' = config_seq
            /\ chamadas' = [chamadas EXCEPT ![c].pc = "fim"]
       ELSE /\ config_seq' = config_seq + 1
            /\ IF ConfigsDe(config_seq) = {}
               THEN /\ configs' = configs \cup {Config(config_seq, chamadas[c].site_name)}
                    /\ chamadas' = [chamadas EXCEPT ![c].pc = "fim", ![c].pk = config_seq]
               ELSE /\ configs' = configs
                    /\ chamadas' = [chamadas EXCEPT ![c].pc = "fim", ![c].erro = "IntegrityError"]
    /\ SemCatalogo

\* get_config up to the creation: the get(pk=1) of get_or_create
GetConfigBuscar(c) ==
    /\ chamadas[c].pc = "livre"
    /\ \A d \in 1..(c - 1) : chamadas[d].pc # "livre"
    /\ LET base == [ChamadaLivre EXCEPT !.op = "get_config", !.pk = 1]
       IN  chamadas' = [chamadas EXCEPT ![c] =
             IF ConfigsDe(1) # {}
             THEN [base EXCEPT !.pc = "fim", !.retorno = 1]
             ELSE [base EXCEPT !.pc = "criar"]]
    /\ UNCHANGED <<configs, config_seq>>
    /\ SemCatalogo

\* the create(pk=1) of get_or_create: save(force_insert=True) of an instance
\* with pk 1 and the defaults; on IntegrityError the row is read again
GetConfigCriar(c) ==
    /\ chamadas[c].pc = "criar"
    /\ configs' = IF ConfigsDe(1) = {} THEN configs \cup {Config(1, "Espaco Vital")}
                  ELSE configs
    /\ chamadas' = [chamadas EXCEPT ![c].pc = "fim", ![c].retorno = 1]
    /\ UNCHANGED config_seq
    /\ SemCatalogo

NextOrdem ==
    \/ \E nome \in Nomes : CriarTerapeuta(nome)
    \/ \E t \in TerapeutaIds, e \in EdicoesOrdem : AdminSalvarTerapeuta(t, e[1], e[2])
    \/ \E t \in TerapeutaIds, c \in Clientes, n \in NotasForm, b \in BOOLEAN :
          AdminSalvarAvaliacao(t, c, n, b)
    \/ \E r \in RequisicoesOrdem : Buscar(r)
    \/ BuscarDeNovo
    \/ Entregar

SpecOrdem == Init /\ [][NextOrdem]_vars

\* the display name of the i-th therapist of a long catalogue: "a", "aa", ...
NomeDe(i) == [j \in 1..i |-> 1]

\* A catalogue of k therapists registered one after the other, each a year
\* more experienced than the one before, except that therapist empate + 1
\* has the experience of therapist empate (empate = 0: no two alike), and
\* therapist inativo is deactivated (inativo = 0: none).
Catalogo(k, empate, inativo) ==
    [i \in 1..k |->
        [NovoTerapeuta(NomeDe(i), i) EXCEPT
            !.experiencia_anos = IF empate > 0 /\ i > empate THEN i - 1 ELSE i,
            !.acessibilidade   = (i % 2 = 0),
            !.is_active        = (i # inativo)]]

\* the sizes of the catalogues: from one short of a page to MaxExtra beyond it
TamanhosCatalogo == (PaginateBy - 1)..(PaginateBy + MaxExtra)

InitPagina ==
    /\ \E k \in TamanhosCatalogo, empate \in 0..(PaginateBy + MaxExtra), inativo \in 0..(PaginateBy + MaxExtra) :
          /\ empate < k
          /\ inativo <= k
          /\ terapeutas = Catalogo(k, empate, inativo)
    /\ avaliacoes = {}
    /\ escritas = 0
    /\ req = ReqVazia
    /\ status = "nenhuma"
    /\ resultado = <<>>
    /\ anotacoes = <<>>
    /\ anterior = <<>>
    /\ paginas = <<>>
    /\ total_resultados = 0
    /\ contatos = {}
    /\ pedidos = [p \in Pedidos |-> PedidoLivre]
    /\ configs = {}
    /\ config_seq = 1
    /\ chamadas = [c \in Chamadas |-> ChamadaLivre]
    /\ recusados = {}
    /\ acao = AcaoNenhuma

\* the listings asked for page by page
RequisicoesPagina ==
    {[ReqVazia EXCEPT !.ordenacao = o, !.acessibilidade = a] :
        o \in {"", "mais_experiente"}, a \in {"", "sim"}}

NextPagina ==
    \/ \E r \in RequisicoesPagina, number \in 1..(1 + MaxExtra) : Paginar(r, number)
    \/ DeixarListagem

SpecPagina == InitPagina /\ [][NextPagina]_vars

\* no request is between its first and its last step
Ocioso == \A p \in Pedidos : pedidos[p].pc \in {"livre", "fim"}

\* one request at a time: a request is received when none is being served
NextContato ==
    \/ \E nome \in Nomes : CriarTerapeuta(nome)
    \/ \E t \in TerapeutaIds, b \in BOOLEAN : AdminSalvarTerapeuta(t, "is_active", b)
    \/ /\ Ocioso
       /\ \E p \in Pedidos, slug \in Slugs, ajax \in BOOLEAN, post \in Formularios :
             ContatoReceber(p, slug, "POST", ajax, post)
    \/ /\ Ocioso
       /\ \E p \in Pedidos, slug \in Slugs : ContatoReceber(p, slug, "GET", FALSE, PostVazio)
    \/ /\ Ocioso
       /\ \E p \in Pedidos, slug \in Slugs : PerfilReceber(p, slug)
    \/ \E p \in Pedidos, e \in {""} \cup Excecoes : ContatoCriar(p, e)
    \/ \E p \in Pedidos, e \in {""} \cup Excecoes : ContatoSalvar(p, e)
    \/ \E p \in Pedidos : PerfilIncrementar(p)

SpecContato == Init /\ [][NextContato]_vars

\* requests served side by side, as the worker processes of the server do:
\* the steps of different requests interleave
NextConcorrente ==
    \/ \E nome \in Nomes : CriarTerapeuta(nome)
    \/ \E p \in Pedidos, slug \in Slugs, ajax \in BOOLEAN :
          ContatoReceber(p, slug, "POST", ajax, PostPreenchido)
    \/ \E p \in Pedidos, slug \in Slugs : PerfilReceber(p, slug)
    \/ \E p \in Pedidos, e \in {""} \cup Excecoes : ContatoCriar(p, e)
    \/ \E p \in Pedidos, e \in {""} \cup Excecoes : ContatoSalvar(p, e)
    \/ \E p \in Pedidos : PerfilIncrementar(p)

SpecConcorrente == Init /\ [][NextConcorrente]_vars

\* calls of save() on a new instance without pk, on a new instance with a pk
\* of the caller's choice and on the stored row with its name edited, and
\* calls of get_config(); the steps of different calls interleave
NextConfig ==
    \/ \E c \in Chamadas, n \in NomesDoSite : SaveVerificar(c, 0, n)
    \/ \E c \in Chamadas, pk \in PksExplicitos : SaveVerificar(c, pk, "Espaco Vital")
    \/ \E c \in Chamadas, r \in configs :
          \E n \in NomesDoSite \ {r.site_name} : SaveVerificar(c, r.pk, n)
    \/ \E c \in Chamadas : SaveGravar(c)
    \/ \E c \in Chamadas : GetConfigBuscar(c)
    \/ \E c \in Chamadas : GetConfigCriar(c)

SpecConfig == Init /\ [][NextConfig]_vars

\* display names given in the admin: "Aa", "aa", "Bb" and "!"
NomesCadastro == {<<3, 1>>, <<1, 1>>, <<4, 2>>, <<Sinal>>}

\* the life of the slug: registrations, later saves from the admin change
\* form with the display name or another field changed, profile views and
\* contact requests
NextSlug ==
    \/ \E nome \in NomesCadastro : CriarTerapeuta(nome)
    \/ \E nome \in NomesCadastro : CriarTerapeutaRecusado(nome)
    \/ \E t \in TerapeutaIds, nome \in NomesCadastro :
          AdminSalvarTerapeuta(t, "nome_exibicao", nome)
    \/ \E t \in TerapeutaIds, b \in BOOLEAN : AdminSalvarTerapeuta(t, "is_active", b)
    \/ /\ Ocioso
       /\ \E p \in Pedidos, slug \in Slugs :
             ContatoReceber(p, slug, "POST", FALSE, PostPreenchido)
    \/ /\ Ocioso
       /\ \E p \in Pedidos, slug \in Slugs : PerfilReceber(p, slug)
    \/ \E p \in Pedidos, e \in {""} \cup Excecoes : ContatoCriar(p, e)
    \/ \E p \in Pedidos, e \in {""} \cup Excecoes : ContatoSalvar(p, e)
    \/ \E p \in Pedidos : PerfilIncrementar(p)

SpecSlug == Init /\ [][NextSlug]_vars

\* len(query) < 2: the shortest query that is looked up
MinimoAjax == 2

\* the slice [:8] of the autocomplete queryset
LimiteAjax == 8

\* the autocomplete filter without verificado=True
FiltroAjax_SemVerificado(query) ==
    {t \in TerapeutaIds :
        /\ terapeutas[t].is_active
        /\ \/ IContains(terapeutas[t].nome_exibicao, query)
           \/ \E e \in terapeutas[t].especialidades : IContains(EspNome[e], query)}

\* busca_terapeutas_ajax: the rows that pass the filter; the aggregate
\* media_avaliacoes groups the joined rows by therapist
FiltroAjax(query) ==
    {t \in TerapeutaIds :
        /\ terapeutas[t].is_active
        /\ terapeutas[t].verificado
        /\ \/ IContains(terapeutas[t].nome_exibicao, query)
           \/ \E e \in terapeutas[t].especialidades : IContains(EspNome[e], query)}

\* x sorts strictly before y under order_by('-destaque', '-premium',
\* '-media_avaliacoes')
PrecedeAjax(x, y) ==
    LET ks == <<"-destaque", "-premium", "-media_avaliacoes">>
    IN  \E i \in DOMAIN ks :
            /\ \A j \in 1..(i - 1) :
                  ~AntesChave(ks[j], x, y, ReqVazia) /\ ~AntesChave(ks[j], y, x, ReqVazia)
            /\ AntesChave(ks[i], x, y, ReqVazia)

\* the first n rows the store may return of S in that order, ties in any order
RECURSIVE Primeiros(_, _)
Primeiros(S, n) ==
    IF n = 0 \/ S = {} THEN {<<>>}
    ELSE UNION { {<<x>> \o s : s \in Primeiros(S \ {x}, n - 1)} :
                    x \in {y \in S : \A z \in S : ~PrecedeAjax(z, y)} }

\* GET /terapeutas/api/buscar/?q=q: busca_terapeutas_ajax.  The entries of
\* the JSON list are recorded by the id they carry.
BuscaAjax(q) ==
    /\ status = "nenhuma"
    /\ IF Len(Strip(q)) < MinimoAjax
       THEN resultado' = <<>>
       ELSE \E s \in Primeiros(FiltroAjax(Strip(q)), LimiteAjax) : resultado' = s
    /\ req' = [ReqVazia EXCEPT !.q = q]
    /\ status' = "ajax"
    /\ UNCHANGED <<terapeutas, avaliacoes, escritas, anotacoes, anterior>>
    /\ UNCHANGED <<varsPagina, varsPedidos, varsConfig, recusados, acao>>

\* the JSON response reaches the client
EntregarAjax ==
    /\ status = "ajax"
    /\ SemResposta
    /\ UNCHANGED <<terapeutas, avaliacoes, escritas, varsPagina, varsPedidos, varsConfig, recusados, acao>>

\* A catalogue of k therapists named "a", "aa", ...: the first offers
\* specialty 1, the others specialties 1 and 2; every second one is in
\* destaque, every third one premium; all are verified but therapist
\* naoverificado and active but therapist inativo (0: none).
CatalogoAjax(k, naoverificado, inativo) ==
    [i \in 1..k |->
        [NovoTerapeuta(NomeDe(i), i) EXCEPT
            !.especialidades = IF i = 1 THEN {1} ELSE {1, 2},
            !.destaque       = (i % 2 = 0),
            !.premium        = (i % 3 = 0),
            !.verificado     = (i # naoverificado),
            !.is_active      = (i # inativo)]]

\* the sizes of the catalogues: from one short of the limit to MaxExtra beyond it
TamanhosAjax == (LimiteAjax - 1)..(LimiteAjax + MaxExtra)

InitAjax ==
    /\ \E k \in TamanhosAjax, naoverificado \in 0..(LimiteAjax + MaxExtra),
          inativo \in 0..(LimiteAjax + MaxExtra) :
          /\ naoverificado <= k
          /\ inativo <= k
          /\ terapeutas = CatalogoAjax(k, naoverificado, inativo)
    /\ avaliacoes = {}
    /\ escritas = 0
    /\ req = ReqVazia
    /\ status = "nenhuma"
    /\ resultado = <<>>
    /\ anotacoes = <<>>
    /\ anterior = <<>>
    /\ paginas = <<>>
    /\ total_resultados = 0
    /\ contatos = {}
    /\ pedidos = [p \in Pedidos |-> PedidoLivre]
    /\ configs = {}
    /\ config_seq = 1
    /\ chamadas = [c \in Chamadas |-> ChamadaLivre]
    /\ recusados = {}
    /\ acao = AcaoNenhuma

\* the queries typed: "a", " a ", "aa", " ab", "ab", "Ba" and "bb"
ConsultasAjax ==
    {<<1>>, <<0, 1, 0>>, <<1, 1>>, <<0, 1, 2>>, <<1, 2>>, <<4, 1>>, <<2, 2>>}

NextAjax ==
    \/ \E q \in ConsultasAjax : BuscaAjax(q)
    \/ EntregarAjax

SpecAjax == InitAjax /\ [][NextAjax]_vars

\* registrations and the bulk actions of the admin changelist, in any order
NextAcoes ==
    \/ \E nome \in Nomes : CriarTerapeuta(nome)
    \/ \E S \in SUBSET TerapeutaIds, agora \in Instantes : verificar_terapeutas(S, agora)
    \/ \E S \in SUBSET TerapeutaIds : remover_verificacao(S)
    \/ \E S \in SUBSET TerapeutaIds : marcar_destaque(S)

SpecAcoes == Init /\ [][NextAcoes]_vars

-----------------------------------------------------------------------------
(* Claims about the filters, checked under SpecFiltro *)

Respondeu == status = "ok"

Devolvidos == RangeOf(resultado)

\* the parameters of the request beyond the listed ones are absent
SoParametros(P) == Presentes(req) \subseteq P

\* C1: whatever the parameters and the catalogue, no therapist in the result
\* of a search has is_active = False.
C1_NuncaInativo ==
    Respondeu => \A i \in DOMAIN resultado : terapeutas[resultado[i]].is_active

\* C1 witness: a search with a valid specialty filter answered while an
\* inactive therapist offers one of the requested specialties.
C1_Witness ==
    /\ Respondeu
    /\ EspecialidadesValidas(req)
    /\ \E t \in TerapeutaIds :
          /\ ~terapeutas[t].is_active
          /\ terapeutas[t].especialidades \cap especialidades_ids(req) # {}
          /\ t \notin Devolvidos

\* the active therapists that offer specialty e
AtivosQueOferecem(e) ==
    {t \in TerapeutaIds : terapeutas[t].is_active /\ e \in terapeutas[t].especialidades}

\* C2 (as claimed): with a set S of valid modalities as the only filter, the
\* result is exactly the active therapists whose tipos_sessao meets S.
C2_ModalidadeIntersecta ==
    ( /\ Respondeu
      /\ req.tipos_sessao # <<>>
      /\ RangeOf(req.tipos_sessao) \subseteq SessionTypeChoices
      /\ SoParametros({"tipos_sessao", "ordenacao"}) )
    => Devolvidos = {t \in TerapeutaIds :
                        /\ terapeutas[t].is_active
                        /\ terapeutas[t].tipos_sessao \cap RangeOf(req.tipos_sessao) # {}}

ValoresValidos(r) ==
    /\ RangeOf(r.tipos_sessao) \subseteq SessionTypeChoices
    /\ r.cidade # "" => Numerico(r.cidade)
    /\ r.estado # "" => Numerico(r.estado)
    /\ \A i \in DOMAIN r.especialidades : Numerico(r.especialidades[i])
    /\ r.acessibilidade \in {"", "sim"}
    /\ r.perfil_profissional # "" => r.perfil_profissional \in ProfileTypeChoices
    /\ r.para_quem # "" => r.para_quem \in ClientTypeChoices

\* t meets the condition of every filter category that r specifies
SatisfazTodas(t, r) ==
    /\ r.tipos_sessao # <<>> => terapeutas[t].tipos_sessao \cap RangeOf(r.tipos_sessao) # {}
    /\ r.cidade # "" => terapeutas[t].cidade = {ParseInt(r.cidade)}
    /\ r.estado # "" => \E c \in terapeutas[t].cidade : EstadoDe[c] = ParseInt(r.estado)
    /\ r.especialidades # <<>> =>
          \E i \in DOMAIN r.especialidades :
              ParseInt(r.especialidades[i]) \in terapeutas[t].especialidades
    /\ r.acessibilidade = "sim" => terapeutas[t].acessibilidade
    /\ r.perfil_profissional # "" => terapeutas[t].tipo_perfil = r.perfil_profissional
    /\ r.para_quem # "" => terapeutas[t].para_quem = r.para_quem
    /\ r.q # <<>> =>
          \/ \E campo \in {"nome_completo", "nome_exibicao", "bio_curta", "bio_completa"} :
                IContains(terapeutas[t][campo], r.q)
          \/ \E e \in terapeutas[t].especialidades : IContains(EspNome[e], r.q)

\* C4 (as claimed): with valid values, a therapist is in the result if and
\* only if it is active and meets the condition of every specified category.
C4_ConjuncaoDasCategorias ==
    (Respondeu /\ ValoresValidos(req))
    => Devolvidos = {t \in TerapeutaIds : terapeutas[t].is_active /\ SatisfazTodas(t, req)}

\* the request with every malformed value left out
Limpa(r) ==
    LET TipoValido(v) == v \in SessionTypeChoices
        IdValido(v)   == Numerico(v)
    IN  [r EXCEPT
            !.tipos_sessao        = SelectSeq(@, TipoValido),
            !.cidade              = IF Numerico(@) THEN @ ELSE "",
            !.estado              = IF Numerico(@) THEN @ ELSE "",
            !.especialidades      = SelectSeq(@, IdValido),
            !.perfil_profissional = IF @ \in ProfileTypeChoices THEN @ ELSE "",
            !.para_quem           = IF @ \in ClientTypeChoices THEN @ ELSE ""]

\* C5 (as claimed): every request is answered with a result, and the result
\* is one of the same request with its malformed values left out.
C5_MalformadoIgnorado ==
    status # "nenhuma" => (status = "ok" /\ resultado \in Resultados(Limpa(req)))

-----------------------------------------------------------------------------
(* Claims about the ranking, checked under SpecOrdem *)

\* the average rating of t as the specification defines it: the mean of the
\* nota of its active reviews as the fraction soma / n, 0 when there is none
RatingAtivo(t) ==
    IF AvaliacoesAtivasDe(t) = {} THEN [soma |-> 0, n |-> 1]
    ELSE [soma |-> SomaNotas(AvaliacoesAtivasDe(t)), n |-> Cardinality(AvaliacoesAtivasDe(t))]

FracMaiorIgual(a, b) == a.soma * b.n >= b.soma * a.n

FracIgual(a, b) == a.soma * b.n = b.soma * a.n

Bit(b) == IF b THEN 1 ELSE 0

MesmasFlags(x, y) ==
    /\ terapeutas[x].destaque = terapeutas[y].destaque
    /\ terapeutas[x].premium = terapeutas[y].premium
    /\ terapeutas[x].verificado = terapeutas[y].verificado

\* x may stand before y in the relevance chain of C6
CadeiaRelevancia(x, y) ==
    /\ Bit(terapeutas[x].destaque) >= Bit(terapeutas[y].destaque)
    /\ terapeutas[x].destaque = terapeutas[y].destaque
          => Bit(terapeutas[x].premium) >= Bit(terapeutas[y].premium)
    /\ (terapeutas[x].destaque = terapeutas[y].destaque
          /\ terapeutas[x].premium = terapeutas[y].premium)
          => Bit(terapeutas[x].verificado) >= Bit(terapeutas[y].verificado)
    /\ MesmasFlags(x, y) => FracMaiorIgual(RatingAtivo(x), RatingAtivo(y))
    /\ (MesmasFlags(x, y) /\ FracIgual(RatingAtivo(x), RatingAtivo(y)))
          => terapeutas[x].created_at >= terapeutas[y].created_at

\* C6 (as claimed): under the default ordering, any x before y in the result
\* obeys the chain destaque, premium, verificado, average rating, created_at,
\* each descending.
C6_OrdemRelevancia ==
    (Respondeu /\ req.ordenacao \in {"", "relevancia"})
    => \A i, j \in DOMAIN resultado :
          i < j => CadeiaRelevancia(resultado[i], resultado[j])

\* C7 (as claimed): under melhor_avaliado the result is in non-increasing
\* order of average rating and, at equal rating, of number of reviews.
C7_OrdemMelhorAvaliado ==
    (Respondeu /\ req.ordenacao = "melhor_avaliado")
    => \A i, j \in DOMAIN resultado :
          i < j =>
            /\ FracMaiorIgual(RatingAtivo(resultado[i]), RatingAtivo(resultado[j]))
            /\ FracIgual(RatingAtivo(resultado[i]), RatingAtivo(resultado[j]))
                  => total_avaliacoes(resultado[i]) >= total_avaliacoes(resultado[j])

\* C8 (as claimed): a therapist without active reviews never stands before a
\* positively rated one under melhor_avaliado, nor under the default ordering
\* when both carry the same destaque, premium and verificado flags.
C8_SemAvaliacaoNaoPrecede ==
    Respondeu
    => \A i, j \in DOMAIN resultado :
          ( /\ i < j
            /\ AvaliacoesAtivasDe(resultado[i]) = {}
            /\ AvaliacoesAtivasDe(resultado[j]) # {} )
          => /\ req.ordenacao # "melhor_avaliado"
             /\ ~( /\ req.ordenacao \notin {"mais_experiente", "nome"}
                   /\ MesmasFlags(resultado[i], resultado[j]) )

\* C9 (as claimed): the average the search ranks a therapist by is the mean
\* of its active reviews alone and agrees with rating_medio; with no active
\* review it is no rating at all.
C9_MediaSoDasAtivas ==
    Respondeu
    => \A i \in DOMAIN resultado :
          LET m == anotacoes[i].media_avaliacoes
              A == AvaliacoesAtivasDe(resultado[i])
          IN  /\ A = {} => (m.n = 0 \/ m.soma = 0)
              /\ A # {} => /\ m.n # 0
                           /\ m.soma * Cardinality(A) = SomaNotas(A) * m.n
                           /\ Round1(m.soma, m.n) = rating_medio(resultado[i])

\* C10 (as claimed): the same request sent twice with no write in between
\* gets the same therapists in the same sequence.
C10_MesmaSequencia ==
    anterior # <<>> => resultado = anterior[1]

-----------------------------------------------------------------------------
(* Claims about the pages of the listing, checked under SpecPagina *)

\* every page of the listing of req has been served
TodasAsPaginas == paginas # <<>> /\ Len(paginas) = num_pages(req)

\* on how many of the served pages, and how often, therapist t appears
Aparicoes(t) ==
    Cardinality({<<i, j>> \in (DOMAIN paginas) \X (1..PaginateBy) :
                    j <= Len(paginas[i]) /\ paginas[i][j] = t})

\* C11: the listing is served in pages of 12: every page holds at most 12
\* therapists, the pages taken in order hold each therapist of the filtered
\* set exactly once, and total_resultados is the size of the filtered set.
C11_PaginasParticionam ==
    /\ \A i \in DOMAIN paginas : Len(paginas[i]) <= 12
    /\ paginas # <<>> => total_resultados = Cardinality(Filtrado(req))
    /\ TodasAsPaginas =>
          /\ \A t \in Filtrado(req) : Aparicoes(t) = 1
          /\ \A t \in TerapeutaIds \ Filtrado(req) : Aparicoes(t) = 0

-----------------------------------------------------------------------------
(* Claims about the contact form and the profile page, checked under        *)
(* SpecContato (one request at a time) and SpecConcorrente                  *)

\* request p takes its last step
Termina(p) == pedidos[p].pc # "fim" /\ pedidos'[p].pc = "fim"

\* k is a POST to the contact form of an active therapist with nome, email,
\* assunto and mensagem filled in
PostCompleto(k) ==
    /\ k.view = "contatar"
    /\ k.method = "POST"
    /\ k.terapeuta # 0
    /\ \A c \in {"nome", "email", "assunto", "mensagem"} : Strip(k.post[c]) # <<>>

\* the store served every statement of request k
SemFalhaDaBase(k) == k.excecao \notin Excecoes

\* the contact counter of therapist t in the catalogue ts (0 before t exists)
ContadorEm(ts, t) == IF t \in DOMAIN ts THEN ts[t].total_contatos ELSE 0

\* since request p was received, exactly one Contato was added, for its
\* therapist and with status enviado, that therapist's total_contatos rose
\* by one and no other therapist's changed
UmContatoAMais(p) ==
    LET k == pedidos'[p]
        a == k.antes
    IN  /\ \E c \in contatos' :
              /\ c \notin a.contatos
              /\ contatos' = a.contatos \cup {c}
              /\ c.terapeuta = k.terapeuta
              /\ c.status = "enviado"
        /\ terapeutas'[k.terapeuta].total_contatos = ContadorEm(a.terapeutas, k.terapeuta) + 1
        /\ \A t \in DOMAIN terapeutas' :
              t # k.terapeuta => terapeutas'[t].total_contatos = ContadorEm(a.terapeutas, t)

\* C12: a POST for an active therapist with non-empty nome, email, assunto
\* and mensagem persists exactly one Contato linked to that therapist with
\* status enviado and raises that therapist's total_contatos by exactly 1,
\* leaving every other therapist's counter unchanged.
C12_UmContatoEMaisUm ==
    [][\A p \in Pedidos :
          (Termina(p) /\ PostCompleto(pedidos'[p]) /\ SemFalhaDaBase(pedidos'[p]))
              => UmContatoAMais(p)]_vars

\* the Contato rows of therapist t
ContatosDe(t) == {c \in contatos : c.terapeuta = t}

\* the contact requests for therapist t
PedidosDeContato(t) ==
    {p \in Pedidos : pedidos[p].view = "contatar" /\ pedidos[p].terapeuta = t}

\* C13: the write of the contact counter is atomic: when N valid contact
\* requests for one therapist run concurrently and succeed, total_contatos
\* ends N higher and equals its initial value plus the number of Contato
\* rows created for that therapist; no update is lost.
C13_ContadorSemPerda ==
    \A t \in TerapeutaIds :
        (\A p \in PedidosDeContato(t) :
            pedidos[p].pc = "fim" /\ pedidos[p].resposta = Sucesso(pedidos[p].ajax))
        => /\ terapeutas[t].total_contatos = Cardinality(PedidosDeContato(t))
           /\ terapeutas[t].total_contatos = Cardinality(ContatosDe(t))

\* request p is a view of a profile that was found and served
VisitaServida(p) ==
    /\ Termina(p)
    /\ pedidos'[p].view = "profile"
    /\ pedidos'[p].resposta = Perfil

\* C14: every successful profile view raises visualizacoes of the therapist
\* by exactly 1 and changes no other field, so that N views of one profile
\* running concurrently leave visualizacoes exactly N higher.
C14_CadaVisitaSomaUm ==
    [][\A p \in Pedidos :
          VisitaServida(p) =>
              terapeutas' = [terapeutas EXCEPT ![pedidos[p].terapeuta].visualizacoes = @ + 1]]_vars

\* request p is received in this step
Recebe(p) == pedidos[p].pc = "livre" /\ pedidos'[p].pc # "livre"

\* the text is absent, empty or made of spaces only
EmBranco(texto) == \A i \in DOMAIN texto : texto[i] = 0

\* k is a POST to the contact form of an active therapist with one of nome,
\* email, assunto and mensagem missing, empty or blank
PostIncompleto(k) ==
    /\ k.view = "contatar"
    /\ k.method = "POST"
    /\ k.terapeuta # 0
    /\ \E c \in {"nome", "email", "assunto", "mensagem"} : EmBranco(k.post[c])

\* C15: a POST to the contact form in which any of nome, email, assunto or
\* mensagem is missing, empty or only whitespace is rejected with a
\* validation message: no Contato is created, the counter is unchanged and
\* the form is shown again without the submitted values.
C15_IncompletoRecusado ==
    [][\A p \in Pedidos :
          (Recebe(p) /\ PostIncompleto(pedidos'[p])) =>
              /\ pedidos'[p].pc = "fim"
              /\ pedidos'[p].resposta.corpo = "contato_form"
              /\ pedidos'[p].resposta.mensagem = "Por favor, preencha todos os campos obrigatorios."
              /\ pedidos'[p].resposta.contexto \cap DOMAIN pedidos'[p].post = {}
              /\ pedidos'[p].tentativas = 0
              /\ contatos' = contatos
              /\ terapeutas' = terapeutas]_vars

\* C15 witness: a form with a blank (spaces only) required field was refused
\* for a therapist who already has a Contato from a complete form.
C15_Witness ==
    \E p \in Pedidos :
        /\ pedidos[p].pc = "fim"
        /\ PostIncompleto(pedidos[p])
        /\ \E c \in CamposObrigatorios : pedidos[p].post[c] = <<0>>
        /\ pedidos[p].resposta = FormularioRecusado
        /\ terapeutas[pedidos[p].terapeuta].total_contatos = 1
        /\ Cardinality(contatos) = 1

\* the value a form sends for specialty e: its primary key
IdTexto(e) == IF e = 1 THEN "1" ELSE "2"

\* the value of especialidade_interesse is present and names no specialty
\* that exists and is active
SemEspecialidadeAtiva(post) ==
    /\ post.especialidade_interesse # ""
    /\ \A e \in Especialidades \cap EspecialidadesAtivas :
          post.especialidade_interesse # IdTexto(e)

\* C16: when especialidade_interesse does not refer to an existing active
\* specialty, the reference is treated as absent: the contact request is
\* still created, with an empty specialty of interest, and the counter is
\* incremented.
C16_EspecialidadeTratadaComoAusente ==
    [][\A p \in Pedidos :
          (/\ Termina(p)
           /\ PostCompleto(pedidos'[p])
           /\ SemFalhaDaBase(pedidos'[p])
           /\ SemEspecialidadeAtiva(pedidos'[p].post)) =>
              /\ UmContatoAMais(p)
              /\ \A c \in contatos' \ pedidos'[p].antes.contatos :
                    c.especialidade_interesse = {}]_vars

\* C17: a profile or contact request, GET or POST, whose slug matches no
\* therapist or only an inactive one is answered not-found and changes
\* nothing.
C17_SlugDesconhecidoNaoEncontrado ==
    [][\A p \in Pedidos :
          (/\ Recebe(p)
           /\ \A t \in TerapeutaIds :
                 terapeutas[t].slug = pedidos'[p].slug => ~terapeutas[t].is_active) =>
              /\ pedidos'[p].pc = "fim"
              /\ pedidos'[p].resposta.codigo = 404
              /\ UNCHANGED <<terapeutas, avaliacoes, contatos, configs>>]_vars

\* C17 witness: a complete POST to the contact form of a deactivated
\* therapist was answered not-found, and so was a view of a profile that no
\* therapist has.
C17_Witness ==
    \E p, q \in Pedidos :
        /\ pedidos[p].pc = "fim"
        /\ pedidos[p].view = "contatar"
        /\ pedidos[p].method = "POST"
        /\ pedidos[p].post = PostPreenchido
        /\ pedidos[p].resposta = NaoEncontrado
        /\ \E t \in TerapeutaIds :
              terapeutas[t].slug = pedidos[p].slug /\ ~terapeutas[t].is_active
        /\ pedidos[q].pc = "fim"
        /\ pedidos[q].view = "profile"
        /\ pedidos[q].resposta = NaoEncontrado
        /\ \A t \in TerapeutaIds : terapeutas[t].slug # pedidos[q].slug

\* the creation of the Contato of request k raised an exception of the store
CriacaoFalhou(k) ==
    /\ k.view = "contatar"
    /\ k.pc = "fim"
    /\ k.excecao \in Excecoes
    /\ k.contato = 0

\* C18: if persisting the contact request fails unexpectedly, the exception
\* does not leave contatar_terapeuta: an AJAX client gets a JSON body with
\* success false, any other client gets the contact form, each with a
\* generic message that shows nothing of the exception; the creation is
\* attempted once and never retried.
C18_FalhaContidaSemRepeticao ==
    \A p \in Pedidos :
        CriacaoFalhou(pedidos[p]) =>
            /\ pedidos[p].resposta.codigo = 200
            /\ pedidos[p].ajax =>
                  /\ pedidos[p].resposta.corpo = "json"
                  /\ pedidos[p].resposta.json[1] = FALSE
                  /\ pedidos[p].resposta.json[2] # pedidos[p].excecao
            /\ ~pedidos[p].ajax => pedidos[p].resposta.corpo = "contato_form"
            /\ pedidos[p].resposta.mensagem \notin {"", pedidos[p].excecao}
            /\ pedidos[p].tentativas = 1

\* C18 witness: the creation failed for an AJAX client and for a browser.
C18_Witness ==
    \E p, q \in Pedidos :
        /\ CriacaoFalhou(pedidos[p])
        /\ pedidos[p].ajax
        /\ CriacaoFalhou(pedidos[q])
        /\ ~pedidos[q].ajax

-----------------------------------------------------------------------------
(* Claims about SiteConfiguration, checked under SpecConfig *)

\* call c of save() returns or raises in this step
SaveAcaba(c) ==
    /\ chamadas[c].pc # "fim"
    /\ chamadas'[c].pc = "fim"
    /\ chamadas'[c].op = "save"

\* the primary key of the instance that call c was given to save
PkDado(c) == IF chamadas[c].pc = "livre" THEN chamadas'[c].pk ELSE chamadas[c].pk

\* C19: saving a new SiteConfiguration while a row already exists is
\* rejected with an error and leaves the stored row and the row count
\* unchanged; saving the already stored row (an update) is always accepted.
C19_SegundoInsertRecusado ==
    [][\A c \in Chamadas :
          SaveAcaba(c) =>
              IF ConfigsDe(PkDado(c)) = {}
              THEN configs # {} => (chamadas'[c].erro # "" /\ configs' = configs)
              ELSE /\ chamadas'[c].erro = ""
                   /\ Config(PkDado(c), chamadas'[c].site_name) \in configs'
                   /\ Cardinality(configs') = Cardinality(configs)]_vars

\* a call of get_config has returned
GetConfigRetornou == \E c \in Chamadas : chamadas[c].op = "get_config" /\ chamadas[c].pc = "fim"

\* C20: in every state reachable by any sequence or interleaving of
\* SiteConfiguration.save calls (with or without an explicit primary key)
\* and get_config calls, the table holds at most one row, and exactly one
\* after any get_config call.
C20_NoMaximoUmaLinha ==
    /\ Cardinality(configs) <= 1
    /\ GetConfigRetornou => Cardinality(configs) = 1

\* call c of get_config() returns in this step
GetConfigAcaba(c) ==
    /\ chamadas[c].pc # "fim"
    /\ chamadas'[c].pc = "fim"
    /\ chamadas'[c].op = "get_config"

\* C21: get_config never fails: called on an empty table it creates one row
\* with the default values and returns it; called when a row exists it
\* returns that existing row and creates nothing, so that repeated calls
\* return the same row.
C21_GetConfigDevolveALinha ==
    [][\A c \in Chamadas :
          GetConfigAcaba(c) =>
              /\ chamadas'[c].erro = ""
              /\ \E r \in configs' : r.pk = chamadas'[c].retorno
              /\ IF configs = {}
                 THEN configs' = {Config(chamadas'[c].retorno, "Espaco Vital")}
                 ELSE configs' = configs]_vars


\* C22: a therapist's slug is derived from nome_exibicao on the first save and
\* never changes afterwards: no later save alters it, even when nome_exibicao
\* has been changed, and neither a profile view nor a contact request
\* modifies it.
C22_SlugNuncaMuda ==
    [][/\ \A t \in TerapeutaIds : terapeutas'[t].slug = terapeutas[t].slug
       /\ Len(terapeutas') > Len(terapeutas) =>
             terapeutas'[Len(terapeutas')].slug =
                 slugify(terapeutas'[Len(terapeutas')].nome_exibicao)]_vars


\* C23: no two therapists ever have the same slug, and creating a therapist
\* succeeds with a unique slug also when another therapist already has the
\* same display name or a display name that slugifies to the same text: no
\* registration is refused.
C23_SlugUnicoECriacaoAceita ==
    /\ \A t, u \in TerapeutaIds : t # u => terapeutas[t].slug # terapeutas[u].slug
    /\ recusados = {}


\* q occurs in the text s when the case of the letters is ignored
OcorreSemCaixa(s, q) ==
    \E i \in 0..(Len(s) - Len(q)) :
        \A j \in 1..Len(q) : Lower(s[i + j]) = Lower(q[j])

\* the specialties of t in whose name q occurs
EspecialidadesComTexto(t, q) ==
    {e \in terapeutas[t].especialidades : OcorreSemCaixa(EspNome[e], q)}

\* q occurs in one of the four text fields of t
CampoComTexto(t, q) ==
    \E campo \in {"nome_completo", "nome_exibicao", "bio_curta", "bio_completa"} :
        OcorreSemCaixa(terapeutas[t][campo], q)

\* C24: with a free-text query q as the only filter, an active therapist is
\* returned if and only if q occurs, ignoring case, as a substring of its
\* nome_completo, nome_exibicao, bio_curta, bio_completa or of the name of one
\* of its specialties, and a therapist that matches through several fields or
\* several specialties appears in the result exactly once.
C24_BuscaPorTexto ==
    ( /\ Respondeu
      /\ req.q # <<>>
      /\ SoParametros({"q", "ordenacao"}) )
    => /\ Devolvidos =
            {t \in TerapeutaIds :
                /\ terapeutas[t].is_active
                /\ CampoComTexto(t, req.q) \/ EspecialidadesComTexto(t, req.q) # {}}
       /\ \A i, j \in DOMAIN resultado : i # j => resultado[i] # resultado[j]

\* C24 witness: a query answered in which a returned therapist matches
\* through a field and through two specialties, while an active therapist
\* without a match is left out.
C24_Witness ==
    /\ Respondeu
    /\ req.q # <<>>
    /\ SoParametros({"q", "ordenacao"})
    /\ \E t \in Devolvidos :
          /\ CampoComTexto(t, req.q)
          /\ Cardinality(EspecialidadesComTexto(t, req.q)) = 2
    /\ \E u \in TerapeutaIds :
          /\ terapeutas[u].is_active
          /\ u \notin Devolvidos


(* Claims about the other orderings, checked under SpecOrdem *)

\* the ordenacao values that have a branch of their own
OrdenacoesProprias == {"melhor_avaliado", "mais_experiente", "nome"}

\* C25: with ordenacao = mais_experiente the result is in non-increasing order
\* of years of experience, with ordenacao = nome in non-decreasing order of
\* display name, and with any other value that is not melhor_avaliado the
\* result is one that the same request without ordenacao may return.
C25_OutrasOrdenacoes ==
    Respondeu =>
       /\ req.ordenacao = "mais_experiente" =>
             \A i, j \in DOMAIN resultado :
                i < j => terapeutas[resultado[i]].experiencia_anos
                             >= terapeutas[resultado[j]].experiencia_anos
       /\ req.ordenacao = "nome" =>
             \A i, j \in DOMAIN resultado :
                i < j => ~TextoMenor(terapeutas[resultado[j]].nome_exibicao,
                                     terapeutas[resultado[i]].nome_exibicao)
       /\ req.ordenacao \notin OrdenacoesProprias =>
             resultado \in Resultados([req EXCEPT !.ordenacao = ""])

\* C25 witness: mais_experiente answered with two therapists of different
\* experience, the one registered first being the more experienced.
C25_Witness ==
    /\ Respondeu
    /\ req.ordenacao = "mais_experiente"
    /\ Len(resultado) = 2
    /\ terapeutas[1].experiencia_anos > terapeutas[2].experiencia_anos

\* C25, second case reached: nome answered with two therapists, the one
\* registered last standing first.
C25_WitnessNome ==
    /\ Respondeu
    /\ req.ordenacao = "nome"
    /\ Len(resultado) = 2
    /\ resultado[1] = 2

\* C25, third case reached: an unknown ordenacao answered with two therapists
\* that differ in destaque.
C25_WitnessDesconhecida ==
    /\ Respondeu
    /\ req.ordenacao = "xyz"
    /\ Len(resultado) = 2
    /\ terapeutas[resultado[1]].destaque # terapeutas[resultado[2]].destaque


\* request p, now ending, has added a Contato row since it was received
DeixouContato(p) == contatos' # pedidos'[p].antes.contatos

\* the counter of the therapist of request p, now ending, stands one above
\* its value when the request was received
DeixouIncremento(p) ==
    terapeutas'[pedidos'[p].terapeuta].total_contatos =
        ContadorEm(pedidos'[p].antes.terapeutas, pedidos'[p].terapeuta) + 1

\* C26: contact creation is all-or-nothing: when a request to
\* contatar_terapeuta ends, also after a failure of the counter update that
\* follows the writing of the Contato, the request has left a Contato exactly
\* when it has left its increment of total_contatos, and a request answered
\* with a failure message has left neither.
C26_TudoOuNada ==
    [][\A p \in Pedidos :
          (Termina(p) /\ pedidos'[p].view = "contatar" /\ pedidos'[p].terapeuta # 0)
              => /\ DeixouContato(p) <=> DeixouIncremento(p)
                 /\ pedidos'[p].excecao \in Excecoes =>
                       ~DeixouContato(p) /\ ~DeixouIncremento(p)]_vars


\* the identifiers of r.especialidades that are numeric
IdsValidos(r) ==
    {ParseInt(r.especialidades[i]) :
        i \in {j \in DOMAIN r.especialidades : Numerico(r.especialidades[j])}}

\* C27: in the specialty multi-select, one non-numeric identifier among the
\* submitted values does not cancel the valid ones: the result is still
\* restricted to therapists offering at least one of the valid identifiers.
C27_InvalidoNaoCancelaValidos ==
    ( /\ Respondeu
      /\ IdsValidos(req) # {}
      /\ \E i \in DOMAIN req.especialidades : ~Numerico(req.especialidades[i]) )
    => \A t \in Devolvidos : terapeutas[t].especialidades \cap IdsValidos(req) # {}


\* C28: the review count total_avaliacoes that breaks ties under
\* melhor_avaliado equals the number of the therapist's active reviews
\* whatever filters the same query applies: a specialty multi-select or a
\* free-text filter that the therapist matches through k specialties does not
\* multiply its review count by k.
C28_ContagemSemMultiplicar ==
    Respondeu
    => \A i \in DOMAIN resultado :
          anotacoes[i].total_avaliacoes = total_avaliacoes(resultado[i])


-----------------------------------------------------------------------------
(* Claims about the admin bulk actions, checked under SpecAcoes *)

\* in the catalogue ts every therapist is verified exactly when it carries a
\* verification timestamp
VerificadoComData(ts) ==
    \A t \in DOMAIN ts : ts[t].verificado <=> ts[t].data_verificacao # {}

\* the step is a bulk action: it rewrites rows of the catalogue
PassoDeAcao == terapeutas' # terapeutas /\ Len(terapeutas') = Len(terapeutas)

\* C29: starting from therapists that are unverified with no verification
\* timestamp, after any sequence of the bulk actions verificar_terapeutas,
\* remover_verificacao and marcar_destaque every therapist has verificado
\* true exactly when data_verificacao is set; each action changes only the
\* selected therapists, and marcar_destaque changes only destaque.
C29_AcoesEmMassa ==
    [][/\ VerificadoComData(terapeutas')
       /\ PassoDeAcao =>
             /\ \A t \in TerapeutaIds \ acao'.selecionados : terapeutas'[t] = terapeutas[t]
             /\ acao'.nome = "marcar_destaque" =>
                   \A t \in TerapeutaIds :
                       terapeutas'[t] = [terapeutas[t] EXCEPT !.destaque = terapeutas'[t].destaque]]_vars

\* C29 witness: marcar_destaque was run on therapist 2 alone after therapist 1
\* was verified: therapist 1 carries the flag and the timestamp and no
\* destaque, therapist 2 carries destaque and neither flag nor timestamp.
C29_Witness ==
    /\ acao = [nome |-> "marcar_destaque", selecionados |-> {2}]
    /\ terapeutas[1].verificado
    /\ terapeutas[1].data_verificacao # {}
    /\ ~terapeutas[1].destaque
    /\ terapeutas[2].destaque
    /\ ~terapeutas[2].verificado
    /\ terapeutas[2].data_verificacao = {}


-----------------------------------------------------------------------------
(* Claims about the autocomplete endpoint, checked under SpecAjax *)

\* the autocomplete endpoint has answered
RespondeuAjax == status = "ajax"

\* therapist t carries the text q in its display name or in the name of one
\* of its specialties
NomeOuEspecialidadeComTexto(t, q) ==
    \/ OcorreSemCaixa(terapeutas[t].nome_exibicao, q)
    \/ EspecialidadesComTexto(t, q) # {}

\* C30: busca_terapeutas_ajax returns an empty list when the trimmed query has
\* fewer than 2 characters; otherwise it returns at most 8 entries, every
\* entry is an active and verified therapist whose display name or one of
\* whose specialty names contains the query (letter case ignored), and no
\* therapist is listed twice even when it matches through several specialties.
C30_Autocomplete ==
    RespondeuAjax =>
        IF Len(Strip(req.q)) < 2
        THEN resultado = <<>>
        ELSE /\ Len(resultado) <= 8
             /\ \A i \in DOMAIN resultado :
                   /\ terapeutas[resultado[i]].is_active
                   /\ terapeutas[resultado[i]].verificado
                   /\ NomeOuEspecialidadeComTexto(resultado[i], Strip(req.q))
             /\ \A i, j \in DOMAIN resultado : i # j => resultado[i] # resultado[j]

\* C30 witness: a query sent with a leading space is answered with 8 entries
\* although more than 8 therapists qualify, one entry matches through two
\* specialties, and a therapist that carries the text but is not verified is
\* left out.
C30_Witness ==
    /\ RespondeuAjax
    /\ req.q # Strip(req.q)
    /\ Len(resultado) = 8
    /\ Cardinality({t \in TerapeutaIds :
                       /\ terapeutas[t].is_active
                       /\ terapeutas[t].verificado
                       /\ NomeOuEspecialidadeComTexto(t, Strip(req.q))}) > 8
    /\ \E i \in DOMAIN resultado :
          Cardinality(EspecialidadesComTexto(resultado[i], Strip(req.q))) = 2
    /\ \E t \in TerapeutaIds :
          /\ ~terapeutas[t].verificado
          /\ terapeutas[t].is_active
          /\ NomeOuEspecialidadeComTexto(t, Strip(req.q))

=============================================================================
